---- MODULE Spec2Model ----
(***************************************************************************)
(* Model of scripts/release.py: the release preparation script.  Texts    *)
(* (version strings, branch names, tags) are sequences of one-character   *)
(* strings, so that parsing and formatting are computed as the script and *)
(* the two version libraries it calls compute them.                       *)
(***************************************************************************)
EXTENDS Integers, Sequences, FiniteSets, TLC

VARIABLES
    pc,                \* the statement of main that runs next
    outcome,           \* "running", "done", or the reason the run ended
    versionFile,       \* the text of __version__ in rasa/version.py
    pyproject,         \* the text of tool.poetry.version in pyproject.toml
    dirty,             \* git diff-index HEAD reports changes
    head,              \* the branch HEAD points to, or Detached
    tags,              \* the lines of `git tag`
    next_version_arg,  \* args.next_version
    asked,             \* the answer to the text prompt of ask_version
    choices,           \* the choices offered by the select prompt of ask_version
    selected,          \* the answer to the select prompt of ask_version
    version,           \* the local `version` of main
    confirmAnswer,     \* the answer to the prompt of confirm_version
    sdk,               \* the rasa-sdk dependency read from pyproject.toml
    path,              \* the workflow main selected
    branch,            \* the local `branch` of main
    base,              \* the local `base` of main
    message,           \* the closing message printed
    log,               \* the calls made so far, in order
    initialVersionFile,\* the text of __version__ when the run started
    initialHead,       \* what HEAD pointed to when the run started
    runs               \* the number of runs of the script started on this tree

vars == <<pc, outcome, versionFile, pyproject, dirty, head, tags, next_version_arg,
          asked, choices, selected, version, confirmAnswer, sdk, path, branch, base,
          message, log, initialVersionFile, initialHead, runs>>

(***************************************************************************)
(* Bounds of the model                                                     *)
(***************************************************************************)
MaxPatch == 1
MaxCounter == 2
MaxSuffixLen == 2
MaxRuns == 2

(***************************************************************************)
(* Text helpers                                                            *)
(***************************************************************************)
None == <<"None">>

DigitSeq == <<"0", "1", "2", "3", "4", "5", "6", "7", "8", "9">>

DigitChars == {DigitSeq[i] : i \in 1..10}

LetterChars == {"a", "b", "c", "d", "e", "f", "g", "h", "i", "j", "k", "l", "m",
                "n", "o", "p", "q", "r", "s", "t", "u", "v", "w", "x", "y", "z"}

AlnumChars == DigitChars \cup LetterChars

DigitVal(c) == (CHOOSE i \in 1..10 : DigitSeq[i] = c) - 1

RECURSIVE IntToStr(_)
IntToStr(n) == IF n < 10 THEN <<DigitSeq[n + 1]>>
               ELSE IntToStr(n \div 10) \o <<DigitSeq[(n % 10) + 1]>>

\* int(s) for a text of digits
RECURSIVE StrToIntUpto(_, _)
StrToIntUpto(s, n) == IF n = 0 THEN 0
                      ELSE 10 * StrToIntUpto(s, n - 1) + DigitVal(s[n])

StrToInt(s) == StrToIntUpto(s, Len(s))

AllDigits(s) == \A k \in 1..Len(s) : s[k] \in DigitChars

\* the i-th smallest element of a set of numbers
Nth(S, i) == CHOOSE x \in S : Cardinality({y \in S : y < x}) = i - 1

\* str.split(sep) for a one-character separator
Split(s, sep) ==
    [i \in 1..(Cardinality({k \in 1..Len(s) : s[k] = sep}) + 1) |->
        SubSeq(s, Nth({0} \cup {k \in 1..Len(s) : s[k] = sep}, i) + 1,
                  Nth({k \in 1..Len(s) : s[k] = sep} \cup {Len(s) + 1}, i) - 1)]

\* sep.join(parts)
RECURSIVE JoinUpto(_, _, _)
JoinUpto(parts, sep, n) ==
    IF n = 0 THEN <<>>
    ELSE IF n = 1 THEN parts[1]
    ELSE JoinUpto(parts, sep, n - 1) \o <<sep>> \o parts[n]

Join(parts, sep) == JoinUpto(parts, sep, Len(parts))

\* str.replace(c, "")
Remove(s, c) == SelectSeq(s, LAMBDA x : x # c)

\* str.lstrip("0") or "0"
LStripZeros(s) ==
    IF \A k \in 1..Len(s) : s[k] = "0" THEN <<"0">>
    ELSE SubSeq(s, CHOOSE k \in 1..Len(s) : s[k] # "0" /\ \A j \in 1..(k - 1) : s[j] = "0",
                Len(s))

\* position of the first occurrence of c in s, 0 when absent
Find(s, c) == IF \E k \in 1..Len(s) : s[k] = c
              THEN CHOOSE k \in 1..Len(s) : s[k] = c /\ \A j \in 1..(k - 1) : s[j] # c
              ELSE 0

SetMax(S) == CHOOSE x \in S : \A y \in S : y <= x

(***************************************************************************)
(* Regular-expression matching by positions: a position i says that the   *)
(* first i characters of s are consumed; each operator gives the          *)
(* positions a piece of a pattern can reach from i.                        *)
(***************************************************************************)
Separators == {<<"-">>, <<"_">>, <<".">>}

\* [0-9]+
DigitsFrom(s, i) == {j \in (i + 1)..Len(s) : \A k \in (i + 1)..j : s[k] \in DigitChars}

\* [a-z0-9]+
AlnumFrom(s, i) == {j \in (i + 1)..Len(s) : \A k \in (i + 1)..j : s[k] \in AlnumChars}

\* the literal w
LitFrom(s, i, w) ==
    IF i + Len(w) <= Len(s) /\ SubSeq(s, i + 1, i + Len(w)) = w THEN {i + Len(w)} ELSE {}

\* one of the literals W
AnyFrom(s, i, W) == UNION {LitFrom(s, i, w) : w \in W}

\* [-_\.]?
OptSepFrom(s, i) == {i} \cup AnyFrom(s, i, Separators)

\* [-_\.]?(label)[-_\.]?[0-9]* for the labels W
SegmentFrom(s, i, W) ==
    UNION {UNION {UNION {{l} \cup DigitsFrom(s, l) : l \in OptSepFrom(s, k)}
                  : k \in AnyFrom(s, j, W)}
           : j \in OptSepFrom(s, i)}

(***************************************************************************)
(* packaging.version.parse: the PEP 440 pattern (VERSION_PATTERN), matched *)
(* against the whole text.  Texts of the model are lower case and carry   *)
(* no white space.                                                         *)
(***************************************************************************)
PreLabels == {<<"a">>, <<"b">>, <<"c">>, <<"r", "c">>, <<"a", "l", "p", "h", "a">>,
              <<"b", "e", "t", "a">>, <<"p", "r", "e">>,
              <<"p", "r", "e", "v", "i", "e", "w">>}

PostLabels == {<<"p", "o", "s", "t">>, <<"r", "e", "v">>, <<"r">>}

DevLabels == {<<"d", "e", "v">>}

\* v?(?:[0-9]+!)?
Pep440Epoch(s, i) ==
    UNION {{j} \cup UNION {LitFrom(s, k, <<"!">>) : k \in DigitsFrom(s, j)}
           : j \in {i} \cup LitFrom(s, i, <<"v">>)}

\* (?:\.[0-9]+)*
RECURSIVE ReleaseTail(_, _)
ReleaseTail(s, i) ==
    {i} \cup UNION {ReleaseTail(s, k)
                    : k \in UNION {DigitsFrom(s, j) : j \in LitFrom(s, i, <<".">>)}}

\* [0-9]+(?:\.[0-9]+)*
Pep440Release(s, i) == UNION {ReleaseTail(s, j) : j \in DigitsFrom(s, i)}

\* (?:[-_\.]?(a|b|c|rc|alpha|beta|pre|preview)[-_\.]?[0-9]*)?
Pep440Pre(s, i) == {i} \cup SegmentFrom(s, i, PreLabels)

\* (?:-[0-9]+ | [-_\.]?(post|rev|r)[-_\.]?[0-9]*)?
Pep440Post(s, i) ==
    {i} \cup UNION {DigitsFrom(s, j) : j \in LitFrom(s, i, <<"-">>)}
        \cup SegmentFrom(s, i, PostLabels)

\* (?:[-_\.]?dev[-_\.]?[0-9]*)?
Pep440Dev(s, i) == {i} \cup SegmentFrom(s, i, DevLabels)

\* (?:[-_\.][a-z0-9]+)*
RECURSIVE LocalTail(_, _)
LocalTail(s, i) ==
    {i} \cup UNION {LocalTail(s, k)
                    : k \in UNION {AlnumFrom(s, j) : j \in AnyFrom(s, i, Separators)}}

\* (?:\+[a-z0-9]+(?:[-_\.][a-z0-9]+)*)?
Pep440Local(s, i) ==
    {i} \cup UNION {LocalTail(s, k)
                    : k \in UNION {AlnumFrom(s, j) : j \in LitFrom(s, i, <<"+">>)}}

\* TRUE when packaging parses the text as a PEP 440 Version, FALSE when it
\* falls back to LegacyVersion
IsPep440(s) ==
    \E a \in Pep440Epoch(s, 0) : \E b \in Pep440Release(s, a) :
    \E c \in Pep440Pre(s, b) : \E d \in Pep440Post(s, c) :
    \E e \in Pep440Dev(s, d) : Len(s) \in Pep440Local(s, e)

(***************************************************************************)
(* semantic_version.Version, as subclassed by the script                   *)
(***************************************************************************)
ValueError == [error |-> "ValueError"]

IsError(v) == DOMAIN v = {"error"}

MkVersion(ma, mi, pa, pre, bld) ==
    [major |-> ma, minor |-> mi, patch |-> pa, prerelease |-> pre, build |-> bld]

\* Version._validate_identifiers
ValidIdentifiers(ids, allow_leading_zeroes) ==
    \A k \in 1..Len(ids) :
        /\ ids[k] # <<>>
        /\ \/ allow_leading_zeroes
           \/ ~(ids[k][1] = "0" /\ AllDigits(ids[k]) /\ ids[k] # <<"0">>)

\* re.sub(r'[^a-zA-Z0-9+.-]', '-', rest)
Cleanup(rest) ==
    [k \in 1..Len(rest) |->
        IF rest[k] \in AlnumChars \cup {"+", ".", "-"} THEN rest[k] ELSE "-"]

\* str.replace("+", ".")
PlusToDot(s) == [k \in 1..Len(s) |-> IF s[k] = "+" THEN "." ELSE s[k]]

\* end of the greedy match of ^\d+(?:\.\d+(?:\.\d+)?)? ; 0 when no match
NextComponentEnd(s, i) ==
    IF i < Len(s) /\ s[i + 1] = "." /\ DigitsFrom(s, i + 1) # {}
    THEN SetMax(DigitsFrom(s, i + 1)) ELSE i

\* Version(text) for a text built as major.minor.patch[-prerelease][+build]
ParseParts(comps, prerelease, build) ==
    LET pre == IF prerelease = <<>> THEN <<>> ELSE Split(prerelease, ".")
        bld == IF build = <<>> THEN <<>> ELSE Split(build, ".")
    IN IF ValidIdentifiers(pre, FALSE) /\ ValidIdentifiers(bld, TRUE)
       THEN MkVersion(StrToInt(comps[1]), StrToInt(comps[2]), StrToInt(comps[3]),
                      pre, bld)
       ELSE ValueError

\* Version.coerce(text)
coerce(s) ==
    IF DigitsFrom(s, 0) = {} THEN ValueError
    ELSE
    LET e1 == SetMax(DigitsFrom(s, 0))
        e2 == NextComponentEnd(s, e1)
        e3 == IF e2 > e1 THEN NextComponentEnd(s, e2) ELSE e2
        c1 == SubSeq(s, 1, e1)
        c2 == IF e2 > e1 THEN SubSeq(s, e1 + 2, e2) ELSE <<"0">>
        c3 == IF e3 > e2 THEN SubSeq(s, e2 + 2, e3) ELSE <<"0">>
        comps == <<LStripZeros(c1), LStripZeros(c2), LStripZeros(c3)>>
        rest == Cleanup(SubSeq(s, e3 + 1, Len(s)))
        plus == Find(rest, "+")
        body == IF rest # <<>> /\ rest[1] = "-" THEN Tail(rest) ELSE rest
        bplus == Find(body, "+")
    IN IF e3 = Len(s) THEN ParseParts(comps, <<>>, <<>>)
       ELSE IF rest[1] \in {"+", "."} THEN ParseParts(comps, <<>>, PlusToDot(Tail(rest)))
       ELSE IF bplus > 0
            THEN ParseParts(comps, SubSeq(body, 1, bplus - 1),
                            PlusToDot(SubSeq(body, bplus + 1, Len(body))))
            ELSE ParseParts(comps, body, <<>>)

\* BaseVersion.__str__
BaseStr(v) ==
    IntToStr(v.major) \o <<".">> \o IntToStr(v.minor) \o <<".">> \o IntToStr(v.patch)
    \o (IF v.prerelease = <<>> THEN <<>> ELSE <<"-">> \o Join(v.prerelease, "."))
    \o (IF v.build = <<>> THEN <<>> ELSE <<"+">> \o Join(v.build, "."))

\* Version.__str__ of the script: the base text without any hyphen
Str(v) == Remove(BaseStr(v), "-")

\* Version.next_major / next_minor / next_patch: the smallest final version
\* strictly above v
next_major(v) ==
    IF v.prerelease # <<>> /\ v.minor = 0 /\ v.patch = 0
    THEN MkVersion(v.major, 0, 0, <<>>, <<>>)
    ELSE MkVersion(v.major + 1, 0, 0, <<>>, <<>>)

\* next_minor that zeroes the patch without incrementing the minor
next_minor_truncate(v) == MkVersion(v.major, v.minor, 0, <<>>, <<>>)

next_minor(v) ==
    IF v.prerelease # <<>> /\ v.patch = 0
    THEN MkVersion(v.major, v.minor, 0, <<>>, <<>>)
    ELSE MkVersion(v.major, v.minor + 1, 0, <<>>, <<>>)

\* next_patch that increments the patch of a prerelease too
next_patch_increment(v) == MkVersion(v.major, v.minor, v.patch + 1, <<>>, <<>>)

next_patch(v) ==
    IF v.prerelease # <<>>
    THEN MkVersion(v.major, v.minor, v.patch, <<>>, <<>>)
    ELSE MkVersion(v.major, v.minor, v.patch + 1, <<>>, <<>>)

(***************************************************************************)
(* Constants and pure functions of the script                              *)
(***************************************************************************)
Major == <<"m", "a", "j", "o", "r">>
Minor == <<"m", "i", "n", "o", "r">>
Patch == <<"p", "a", "t", "c", "h">>
Alpha == <<"a", "l", "p", "h", "a">>
Rc == <<"r", "c">>
Master == <<"m", "a", "s", "t", "e", "r">>

RELEASE_BRANCH_PREFIX ==
    <<"p", "r", "e", "p", "a", "r", "e", "-", "r", "e", "l", "e", "a", "s", "e", "-">>

PRERELEASE_FLAVORS == {Alpha, Rc}

PRERELEASE_FLAVOR_CODES(flavor) == IF flavor = Alpha THEN <<"a">> ELSE <<"r", "c">>

\* PRERELEASE_VERSION_PATTERN = ^(a|rc)([1-9]\d*)$ : group(1) of the match,
\* <<>> when the text does not match
PrereleaseGroup1(id) ==
    LET code == IF Len(id) >= 1 /\ id[1] = "a" THEN <<"a">>
                ELSE IF Len(id) >= 2 /\ SubSeq(id, 1, 2) = <<"r", "c">> THEN <<"r", "c">>
                ELSE <<>>
        num == SubSeq(id, Len(code) + 1, Len(id))
    IN IF code # <<>> /\ num # <<>> /\ AllDigits(num) /\ num[1] # "0" THEN code ELSE <<>>

PRERELEASE_VERSION_PATTERN(id) == PrereleaseGroup1(id) # <<>>

\* group(2) of a match
PrereleaseGroup2(id) == SubSeq(id, Len(PrereleaseGroup1(id)) + 1, Len(id))

is_prerelease_version(v) ==
    Len(v.prerelease) = 1 /\ PRERELEASE_VERSION_PATTERN(v.prerelease[1])

is_alpha_version(v) ==
    IF Len(v.prerelease) # 1 THEN FALSE
    ELSE IF ~PRERELEASE_VERSION_PATTERN(v.prerelease[1]) THEN FALSE
    ELSE PrereleaseGroup1(v.prerelease[1]) = <<"a">>

\* validate_version without the check of the prerelease
validate_version_lenient(text) ==
    IF ~IsPep440(text) THEN "False"
    ELSE IF IsError(coerce(text)) THEN "ValueError" ELSE "True"

\* "True", "False", or "ValueError" when Version.coerce raises
validate_version(text) ==
    IF ~IsPep440(text) THEN "False"
    ELSE LET version_object == coerce(text)
         IN IF IsError(version_object) THEN "ValueError"
            ELSE IF version_object.prerelease = <<>> \/ is_prerelease_version(version_object)
                 THEN "True" ELSE "False"

\* next_prerelease that restarts the counter when the flavor changes
next_prerelease_reset(v, flavor) ==
    IF v.prerelease # <<>> /\ ~PRERELEASE_VERSION_PATTERN(v.prerelease[1])
    THEN [error |-> "AttributeError"]
    ELSE LET same == v.prerelease # <<>>
                     /\ PrereleaseGroup1(v.prerelease[1]) = PRERELEASE_FLAVOR_CODES(flavor)
             prerelease_number == IF same THEN StrToInt(PrereleaseGroup2(v.prerelease[1]))
                                  ELSE 0
         IN MkVersion(v.major, v.minor, v.patch,
                      <<PRERELEASE_FLAVOR_CODES(flavor) \o IntToStr(prerelease_number + 1)>>,
                      <<>>)

next_prerelease(v, flavor) ==
    IF v.prerelease # <<>> /\ ~PRERELEASE_VERSION_PATTERN(v.prerelease[1])
    THEN [error |-> "AttributeError"]
    ELSE LET prerelease_number == IF v.prerelease # <<>>
                                  THEN StrToInt(PrereleaseGroup2(v.prerelease[1]))
                                  ELSE 0
         IN MkVersion(v.major, v.minor, v.patch,
                      <<PRERELEASE_FLAVOR_CODES(flavor) \o IntToStr(prerelease_number + 1)>>,
                      <<>>)

\* parse_next_version(text) for a text that is no keyword: lines 334-337
parse_explicit(text) ==
    LET valid == validate_version(text)
    IN IF valid = "True" THEN coerce(text)
       ELSE IF valid = "ValueError" THEN ValueError
       ELSE [error |-> "Exception"]

\* parse_next_version(text), current being the text of the version file
parse_next_version(text, current) ==
    LET cur == coerce(current)
    IN IF text \in {Major, Minor, Patch} \cup PRERELEASE_FLAVORS
       THEN IF IsError(cur) THEN cur
            ELSE IF text = Major THEN next_major(cur)
            ELSE IF text = Minor THEN next_minor(cur)
            ELSE IF text = Patch THEN next_patch(cur)
            ELSE next_prerelease(cur, text)
       ELSE parse_explicit(text)

\* the validator of the text prompt of ask_version
is_valid_version_number(text) ==
    text \in {Major, Minor, Patch, Alpha, Rc} \/ validate_version(text) = "True"

\* asking for a base whenever a flavor is answered
needs_select_always(answer, current_version) == answer \in PRERELEASE_FLAVORS

\* the condition under which ask_version asks which prerelease is meant
needs_select(answer, current_version) ==
    answer \in PRERELEASE_FLAVORS /\ current_version.prerelease = <<>>

\* the choices with the next patch first
select_choices_patch_first(cur, flavor) ==
    <<Str(next_prerelease(next_patch(cur), flavor)),
      Str(next_prerelease(next_minor(cur), flavor)),
      Str(next_prerelease(next_major(cur), flavor))>>

\* the choices of the select prompt of ask_version
select_choices(cur, flavor) ==
    <<Str(next_prerelease(next_minor(cur), flavor)),
      Str(next_prerelease(next_patch(cur), flavor)),
      Str(next_prerelease(next_major(cur), flavor))>>

\* an answer that is taken whatever it is
answer_given_always(text) == TRUE

\* `if version:` at the end of ask_version: a cancelled prompt gives None
answer_given(text) == text # None /\ text # <<>>

\* str.strip() of white space
Strip(s) ==
    IF \A k \in 1..Len(s) : s[k] = " " THEN <<>>
    ELSE SubSeq(s, CHOOSE k \in 1..Len(s) : s[k] # " " /\ \A j \in 1..(k - 1) : s[j] = " ",
                CHOOSE k \in 1..Len(s) : s[k] # " " /\ \A j \in (k + 1)..Len(s) : s[j] = " ")

\* get_rasa_sdk_version() for the dependency text of pyproject.toml
get_rasa_sdk_version(dependency) == Strip(Tail(dependency))

\* the dependency check on the major component alone
sdk_matches_major(sdkVersion, v) == sdkVersion.major = v.major

\* TRUE when validate_code_is_release_ready lets the run go on
sdk_matches(sdkVersion, v) == <<sdkVersion.major, sdkVersion.minor>> = <<v.major, v.minor>>

Detached == <<"HEAD">>

\* the name of HEAD as it is, with no fallback
git_current_branch_raw(h) == h

\* git_current_branch() for the state of HEAD
git_current_branch(h) == IF h = Detached THEN Master ELSE h

\* RELEASE_BRANCH_PATTERN = ^\d+\.\d+\.x$
RELEASE_BRANCH_PATTERN(name) ==
    \E a \in DigitsFrom(name, 0) : \E b \in LitFrom(name, a, <<".">>) :
    \E c \in DigitsFrom(name, b) : Len(name) \in LitFrom(name, c, <<".", "x">>)

\* the branch test without the release-branch pattern
master_only(h) == git_current_branch(h) = Master

git_current_branch_is_master_or_release(h) ==
    LET current_branch == git_current_branch(h)
    IN current_branch = Master \/ RELEASE_BRANCH_PATTERN(current_branch)

\* a branch name built from the text of the base class, hyphen included
release_branch_name_hyphen(v) == RELEASE_BRANCH_PREFIX \o BaseStr(v)

\* the branch name of create_release_branch
release_branch_name(v) == RELEASE_BRANCH_PREFIX \o Str(v)

\* ensure_clean_git that ignores the result of git diff-index
ensure_clean_git_unchecked(d) == TRUE

\* TRUE when ensure_clean_git lets the run go on
ensure_clean_git(d) == ~d

\* the condition of the alpha workflow on a feature branch
same_branch_workflow(v, h) ==
    is_alpha_version(v) /\ ~git_current_branch_is_master_or_release(h)

\* a changelog for every version, prerelease or not
changelog_always(v) == TRUE

\* the condition under which main generates the changelog
changelog_wanted(v) == v.prerelease = <<>>

\* TRUE when the question of confirm_version is the overwrite question
tag_exists(v, existing) == Str(v) \in existing

\* a confirmation whose default is always to accept
confirm_result_accept(answer, default) == answer \in {"enter", "yes"}

\* the answer questionary.confirm returns: Enter gives the default, a
\* cancelled prompt gives None
confirm_result(answer, default) ==
    IF answer = "enter" THEN default ELSE answer = "yes"

(***************************************************************************)
(* Inputs of the model                                                     *)
(***************************************************************************)
Majors == {2}

Minors == {0, 4}

Prereleases ==
    {<<>>} \cup {<<code \o IntToStr(n)>> : code \in {<<"a">>, <<"r", "c">>},
                                           n \in 1..MaxCounter}

\* the version file holds the text the script wrote for an earlier release
CurrentVersions ==
    {Str(MkVersion(ma, mi, pa, pre, <<>>)) :
        ma \in Majors, mi \in Minors, pa \in 0..MaxPatch, pre \in Prereleases}

Tokens == {<<".">>, <<"-">>, <<"a">>, <<"r", "c">>, <<"b">>, <<"0">>, <<"1">>}

RECURSIVE FlattenUpto(_, _)
FlattenUpto(seqs, n) == IF n = 0 THEN <<>> ELSE FlattenUpto(seqs, n - 1) \o seqs[n]

Flatten(seqs) == FlattenUpto(seqs, Len(seqs))

\* suffixes that are longer: the malformed text of the specification's
\* scenario, a hyphenated prerelease, counters with a leading zero, and a
\* dotted suffix that holds a hyphen
LongSuffixes == {<<".", "r", "c", "1">>, <<"-", "a", "1">>, <<"a", "0", "1">>,
                 <<"-", "0", "1">>, <<"r", "c", "1", "0">>, <<".", "a", "-", "1">>}

Suffixes == LongSuffixes
            \cup {Flatten(ts) : ts \in UNION {[1..k -> Tokens] : k \in 0..MaxSuffixLen}}

Prefixes == {<<"2", ".", "4", ".", "1">>}

ExplicitTexts == {p \o x : p \in Prefixes, x \in Suffixes}

\* the version texts typed at the prompt of ask_version
AskTexts == {p \o x : p \in Prefixes, x \in Tokens \cup {<<>>, <<"a", "1">>, <<"r", "c", "2">>}}

Keywords == {Major, Minor, Patch, Alpha, Rc}

\* args.next_version: absent, a keyword or a version text
Args == {None} \cup Keywords \cup ExplicitTexts

FeatureX == <<"f", "e", "a", "t", "u", "r", "e", "/", "x">>

Heads == {Master, FeatureX, <<"2", ".", "4", ".", "x">>, <<"2", ".", "x">>, Detached}

ExistingTags == {<<>>, <<"2", ".", "4", ".", "0">>, <<"2", ".", "4", ".", "1">>,
                 <<"2", ".", "4", ".", "1", "a", "1">>, <<"2", ".", "5", ".", "0">>}

SdkDependencies ==
    {<<"~", "2", ".", "4", ".", "0">>, <<"~", "2", ".", "3", ".", "5">>,
     <<"^", "2", ".", "5", ".", "0", "r", "c", "1">>, <<"~", " ", "3", ".", "0">>}

ConfirmAnswers == {"yes", "no", "enter", "cancel"}

NoVersion == [error |-> "None"]

(***************************************************************************)
(* The run of main                                                         *)
(***************************************************************************)
Init ==
    /\ pc = "ensure_clean_git"
    /\ outcome = "running"
    /\ versionFile \in CurrentVersions
    /\ initialVersionFile = versionFile
    /\ pyproject = versionFile
    /\ dirty \in BOOLEAN
    /\ head \in Heads
    /\ initialHead = head
    /\ runs = 1
    /\ tags = ExistingTags
    /\ next_version_arg = None
    /\ asked = None
    /\ choices = <<>>
    /\ selected = None
    /\ version = NoVersion
    /\ confirmAnswer = "none"
    /\ sdk = None
    /\ path = "none"
    /\ branch = None
    /\ base = None
    /\ message = <<>>
    /\ log = <<>>

Exit(reason) == pc' = "exited" /\ outcome' = reason

\* main, line 383: ensure_clean_git()
EnsureCleanGit ==
    /\ pc = "ensure_clean_git"
    /\ log' = Append(log, "ensure_clean_git")
    /\ IF ensure_clean_git(dirty)
       THEN pc' = "next_version" /\ UNCHANGED outcome
       ELSE Exit("dirty")
    /\ UNCHANGED <<runs, initialHead, initialVersionFile,
                   versionFile, pyproject, dirty, head, tags, next_version_arg, asked,
                   choices, selected, version, confirmAnswer, sdk, path, branch, base,
                   message>>

\* parse_next_version of the version texts of the model, computed once
ExplicitVersions == [t \in ExplicitTexts |-> parse_next_version(t, <<>>)]

\* the end of next_version: parse_next_version(text)
Resolve(text) ==
    \E v \in {IF text \in ExplicitTexts THEN ExplicitVersions[text]
              ELSE parse_next_version(text, versionFile)} :
        /\ version' = v
        /\ IF IsError(v) THEN Exit(v.error)
           ELSE pc' = "confirm_version" /\ UNCHANGED outcome

\* main, line 384: next_version(args) with a directive on the command line
NextVersionFromArgs ==
    /\ pc = "next_version"
    /\ \E arg \in Args \ {None} :
        /\ next_version_arg' = arg
        /\ log' = Append(log, "parse_next_version")
        /\ Resolve(arg)
    /\ UNCHANGED <<runs, initialHead, initialVersionFile,
                   versionFile, pyproject, dirty, head, tags, asked, choices, selected,
                   confirmAnswer, sdk, path, branch, base, message>>

\* main, line 384: next_version(args) without a directive: ask_version()
NextVersionAsk ==
    /\ pc = "next_version"
    /\ next_version_arg' = None
    /\ \E current_version \in {coerce(versionFile)} :
       \E answer \in {None} \cup {t \in Keywords \cup AskTexts : is_valid_version_number(t)} :
       \E select \in {needs_select(answer, current_version)} :
       \E offered \in {IF select THEN select_choices(current_version, answer) ELSE <<>>} :
       \E pick \in IF select THEN {None} \cup {offered[i] : i \in 1..3} ELSE {None} :
       \E text \in {IF select THEN pick ELSE answer} :
        /\ asked' = answer
        /\ choices' = offered
        /\ selected' = pick
        /\ IF ~answer_given(text)
           THEN /\ log' = log \o (IF select THEN <<"ask_text", "ask_select">>
                                  ELSE <<"ask_text">>)
                /\ Exit("aborted")
                /\ UNCHANGED version
           ELSE /\ log' = log \o (IF select THEN <<"ask_text", "ask_select">>
                                  ELSE <<"ask_text">>)
                             \o <<"parse_next_version">>
                /\ Resolve(text)
    /\ UNCHANGED <<runs, initialHead, initialVersionFile,
                   versionFile, pyproject, dirty, head, tags,
                   confirmAnswer, sdk, path, branch, base, message>>

\* main, line 385: confirm_version(version)
ConfirmVersion ==
    /\ pc = "confirm_version"
    /\ \E answer \in ConfirmAnswers :
       \E overwrite \in {tag_exists(version, tags)} :
        /\ confirmAnswer' = answer
        /\ log' = Append(log, IF overwrite THEN "confirm_overwrite" ELSE "confirm_proceed")
        /\ IF confirm_result(answer, ~overwrite)
           THEN pc' = "validate_code_is_release_ready" /\ UNCHANGED outcome
           ELSE Exit("declined")
    /\ UNCHANGED <<runs, initialHead, initialVersionFile,
                   versionFile, pyproject, dirty, head, tags, next_version_arg, asked,
                   choices, selected, version, sdk, path, branch, base, message>>

\* main, line 387: validate_code_is_release_ready(version)
ValidateCodeIsReleaseReady ==
    /\ pc = "validate_code_is_release_ready"
    /\ \E dependency \in SdkDependencies :
       \E sdk_version \in {coerce(get_rasa_sdk_version(dependency))} :
        /\ sdk' = dependency
        /\ log' = Append(log, "validate_code_is_release_ready")
        /\ IF IsError(sdk_version) THEN Exit("ValueError")
           ELSE IF sdk_matches(sdk_version, version)
           THEN pc' = "write_version_file" /\ UNCHANGED outcome
           ELSE Exit("mismatch")
    /\ UNCHANGED <<runs, initialHead, initialVersionFile,
                   versionFile, pyproject, dirty, head, tags, next_version_arg, asked,
                   choices, selected, version, confirmAnswer, path, branch, base,
                   message>>

\* main, line 389: write_version_file(version); git add may fail
WriteVersionFile ==
    /\ pc = "write_version_file"
    /\ versionFile' = Str(version)
    /\ dirty' = TRUE
    /\ log' = Append(log, "write_version_file")
    /\ \E ok \in BOOLEAN :
        IF ok THEN pc' = "write_version_to_pyproject" /\ UNCHANGED outcome
        ELSE Exit("CalledProcessError")
    /\ UNCHANGED <<runs, initialHead, initialVersionFile,
                   pyproject, head, tags, next_version_arg, asked, choices, selected,
                   version, confirmAnswer, sdk, path, branch, base, message>>

\* main, line 390: write_version_to_pyproject(version); the file may be
\* missing or broken, and git add may fail
WriteVersionToPyproject ==
    /\ pc = "write_version_to_pyproject"
    /\ \E result \in {"ok", "unreadable", "add_failed"} :
        /\ IF result = "unreadable"
           THEN /\ UNCHANGED <<pyproject, log>>
                /\ Exit("pyproject")
           ELSE /\ pyproject' = Str(version)
                /\ log' = Append(log, "write_version_to_pyproject")
                /\ IF result = "ok"
                   THEN pc' = "generate_changelog" /\ UNCHANGED outcome
                   ELSE Exit("CalledProcessError")
    /\ UNCHANGED <<runs, initialHead, initialVersionFile,
                   versionFile, dirty, head, tags, next_version_arg, asked, choices,
                   selected, version, confirmAnswer, sdk, path, branch, base, message>>

\* main, lines 392-394: generate_changelog(version) for a final version
GenerateChangelog ==
    /\ pc = "generate_changelog"
    /\ IF changelog_wanted(version)
       THEN /\ log' = Append(log, "generate_changelog")
            /\ \E ok \in BOOLEAN :
                IF ok THEN pc' = "workflow" /\ UNCHANGED outcome
                ELSE Exit("CalledProcessError")
       ELSE /\ pc' = "workflow"
            /\ UNCHANGED <<outcome, log>>
    /\ UNCHANGED <<runs, initialHead, initialVersionFile,
                   versionFile, pyproject, dirty, head, tags, next_version_arg, asked,
                   choices, selected, version, confirmAnswer, sdk, path, branch, base,
                   message>>

\* main, lines 397 and 403-404: the choice of the workflow, and on the
\* release-branch path base = git_current_branch() and create_release_branch
SelectWorkflow ==
    /\ pc = "workflow"
    /\ IF same_branch_workflow(version, head)
       THEN /\ path' = "same_branch"
            /\ pc' = "create_commit"
            /\ UNCHANGED <<outcome, head, branch, base, log>>
       ELSE /\ path' = "release_branch"
            /\ base' = git_current_branch(head)
            /\ log' = Append(log, "create_release_branch")
            /\ \E ok \in BOOLEAN :
                IF ok THEN /\ head' = release_branch_name(version)
                           /\ branch' = release_branch_name(version)
                           /\ pc' = "create_commit"
                           /\ UNCHANGED outcome
                ELSE /\ Exit("CalledProcessError")
                     /\ UNCHANGED <<head, branch>>
    /\ UNCHANGED <<runs, initialHead, initialVersionFile,
                   versionFile, pyproject, dirty, tags, next_version_arg, asked, choices,
                   selected, version, confirmAnswer, sdk, message>>

\* main, lines 398 and 406: create_commit(version)
CreateCommit ==
    /\ pc = "create_commit"
    /\ log' = Append(log, "create_commit")
    /\ \E ok \in BOOLEAN :
        IF ok THEN /\ dirty' = FALSE
                   /\ pc' = "push_changes"
                   /\ UNCHANGED outcome
        ELSE /\ Exit("CalledProcessError")
             /\ UNCHANGED dirty
    /\ UNCHANGED <<runs, initialHead, initialVersionFile,
                   versionFile, pyproject, head, tags, next_version_arg, asked, choices,
                   selected, version, confirmAnswer, sdk, path, branch, base, message>>

\* push_changes that tries again when git push fails
PushChangesRetry ==
    /\ pc = "push_changes"
    /\ log' = Append(log, "push_changes")
    /\ \E ok \in BOOLEAN :
        IF ok THEN pc' = "print_done_message" ELSE pc' = "push_changes"
    /\ UNCHANGED <<runs, initialHead, initialVersionFile,
                   versionFile, pyproject, dirty, head, tags, next_version_arg, asked,
                   choices, selected, version, confirmAnswer, sdk, path, branch, base,
                   message, outcome>>

\* main, lines 399 and 407: push_changes()
PushChanges ==
    /\ pc = "push_changes"
    /\ log' = Append(log, "push_changes")
    /\ \E ok \in BOOLEAN :
        IF ok THEN pc' = "print_done_message" /\ UNCHANGED outcome
        ELSE Exit("CalledProcessError")
    /\ UNCHANGED <<runs, initialHead, initialVersionFile,
                   versionFile, pyproject, dirty, head, tags, next_version_arg, asked,
                   choices, selected, version, confirmAnswer, sdk, path, branch, base,
                   message>>

\* main, lines 401 and 409: the closing message
PrintDoneMessage ==
    /\ pc = "print_done_message"
    /\ message' = IF path = "same_branch"
                  THEN <<"same_branch", Str(version)>>
                  ELSE <<"compare", base, branch, Str(version)>>
    /\ pc' = "done"
    /\ outcome' = "done"
    /\ UNCHANGED <<runs, initialHead, initialVersionFile,
                   versionFile, pyproject, dirty, head, tags, next_version_arg, asked,
                   choices, selected, version, confirmAnswer, sdk, path, branch, base,
                   log>>

Next ==
    \/ EnsureCleanGit
    \/ NextVersionFromArgs
    \/ NextVersionAsk
    \/ ConfirmVersion
    \/ ValidateCodeIsReleaseReady
    \/ WriteVersionFile
    \/ WriteVersionToPyproject
    \/ GenerateChangelog
    \/ SelectWorkflow
    \/ CreateCommit
    \/ PushChanges
    \/ PrintDoneMessage

Spec == Init /\ [][Next]_vars

(***************************************************************************)
(* Runs of the script one after the other on the same working tree         *)
(***************************************************************************)
\* the first run starts on a tree of the 2.4 line, on master or on a
\* feature branch
InitRuns ==
    /\ Init
    /\ versionFile \in {<<"2", ".", "4", ".", "0">>,
                        <<"2", ".", "4", ".", "1", "a", "1">>}
    /\ head \in {Master, FeatureX}

\* the script is started again after a run has ended: the files, the index
\* and HEAD are as the run left them
Restart ==
    /\ pc \in {"exited", "done"}
    /\ runs < MaxRuns
    /\ runs' = runs + 1
    /\ pc' = "ensure_clean_git"
    /\ outcome' = "running"
    /\ initialVersionFile' = versionFile
    /\ initialHead' = head
    /\ next_version_arg' = None
    /\ asked' = None
    /\ choices' = <<>>
    /\ selected' = None
    /\ version' = NoVersion
    /\ confirmAnswer' = "none"
    /\ sdk' = None
    /\ path' = "none"
    /\ branch' = None
    /\ base' = None
    /\ message' = <<>>
    /\ log' = <<>>
    /\ UNCHANGED <<versionFile, pyproject, dirty, head, tags>>

NextRuns == Next \/ Restart

SpecRuns == InitRuns /\ [][NextRuns]_vars

(***************************************************************************)
(* Vocabulary of the properties                                            *)
(***************************************************************************)
Has(e) == \E i \in 1..Len(log) : log[i] = e

Count(e) == Cardinality({i \in 1..Len(log) : log[i] = e})

\* every e in the log comes after some f
Preceded(e, f) ==
    \A i \in 1..Len(log) : log[i] = e => \E j \in 1..(i - 1) : log[j] = f

Prompts == {"ask_text", "ask_select", "confirm_overwrite", "confirm_proceed"}

SideEffects == {"write_version_file", "write_version_to_pyproject", "generate_changelog",
                "create_release_branch", "create_commit", "push_changes"}

\* nothing was written, generated, created, committed or pushed in this run
NoSideEffect ==
    /\ \A e \in SideEffects : ~Has(e)
    /\ versionFile = initialVersionFile
    /\ pyproject = initialVersionFile
    /\ ~dirty
    /\ branch = None
    /\ head \in Heads

NonZeroExit == pc = "exited" /\ outcome \notin {"running", "done"}

Resolved == ~IsError(version)

BeforeWrite == ~Has("write_version_file")

\* Version.coerce of the version texts and of the dependencies of the
\* model, computed once
CurrentVersionsParsed == [t \in CurrentVersions |-> coerce(t)]

SdkVersionsParsed == [d \in SdkDependencies |-> coerce(get_rasa_sdk_version(d))]

\* the current version: the one the run started from
Current ==
    IF initialVersionFile \in CurrentVersions THEN CurrentVersionsParsed[initialVersionFile]
    ELSE coerce(initialVersionFile)

\* the version of the rasa-sdk dependency the run read
SdkVersion == SdkVersionsParsed[sdk]

\* the directive of the run: the argument, or else the answer to the prompt
Directive == IF next_version_arg # None THEN next_version_arg ELSE asked

Text(v) == Str(v)

\* the branch the run started on, as git_current_branch reports it
OriginalBranch == IF path = "release_branch" THEN base ELSE git_current_branch(head)

\* flavor and counter of a prerelease identifier such as a1 or rc12
FlavorOf(id) == IF id[1] = "a" THEN Alpha ELSE Rc

CounterOf(id) == StrToInt(SubSeq(id, IF id[1] = "a" THEN 2 ELSE 3, Len(id)))

Final(ma, mi, pa) == MkVersion(ma, mi, pa, <<>>, <<>>)

Pre(ma, mi, pa, flavor, n) ==
    MkVersion(ma, mi, pa, <<(IF flavor = Alpha THEN <<"a">> ELSE <<"r", "c">>)
                             \o IntToStr(n)>>, <<>>)

V240 == <<"2", ".", "4", ".", "0">>
V241 == <<"2", ".", "4", ".", "1">>

(***************************************************************************)
(* C1: in every run the clean-working-tree check comes before version      *)
(* resolution and before any prompt, the dependency check comes before the *)
(* first metadata write, and nothing is written unless both checks passed  *)
(* earlier in the run.                                                     *)
(***************************************************************************)
C1_GuardOrdering ==
    /\ \A e \in Prompts \cup {"parse_next_version"} : Preceded(e, "ensure_clean_git")
    /\ \A e \in {"write_version_file", "write_version_to_pyproject"} :
          /\ Preceded(e, "ensure_clean_git")
          /\ Preceded(e, "validate_code_is_release_ready")
    \* the clean check passed: the tree is clean until the first write
    /\ (Len(log) > 1 /\ BeforeWrite) => ~dirty
    \* the dependency check passed
    /\ Has("write_version_file") =>
          LET sdk_version == SdkVersion
          IN sdk_version.major = version.major /\ sdk_version.minor = version.minor

C1_Witness ==
    /\ pc = "generate_changelog"
    /\ Has("write_version_file") /\ Has("write_version_to_pyproject")

(***************************************************************************)
(* C2: once the workflow is selected exactly one path runs; it is the      *)
(* same-branch path (no branch created) exactly when the resolved version  *)
(* is an alpha and the current branch is neither master nor of the form    *)
(* <digits>.<digits>.x, and the release-branch path in every other case.   *)
(***************************************************************************)
IsReleaseBranchName(b) ==
    \E i \in 2..Len(b) :
        /\ b[i] = "." /\ AllDigits(SubSeq(b, 1, i - 1))
        /\ Len(b) >= i + 3 /\ AllDigits(SubSeq(b, i + 1, Len(b) - 2))
        /\ SubSeq(b, Len(b) - 1, Len(b)) = <<".", "x">>

IsAlpha(v) == v.prerelease # <<>> /\ v.prerelease[1][1] = "a"

C2_WorkflowSelection ==
    path # "none" =>
        LET current_branch == IF path = "same_branch" THEN git_current_branch(head)
                              ELSE base
            feature == current_branch # Master /\ ~IsReleaseBranchName(current_branch)
        IN /\ path \in {"same_branch", "release_branch"}
           /\ path = "same_branch" <=> (IsAlpha(version) /\ feature)
           /\ path = "same_branch" =>
                 /\ ~Has("create_release_branch") /\ branch = None /\ head \in Heads
                 /\ pc = "done" => Count("create_commit") = 1 /\ Count("push_changes") = 1
           /\ path = "release_branch" => Count("create_release_branch") = 1

C2_Witness ==
    /\ pc = "done" /\ path = "same_branch" /\ head = FeatureX
    /\ Has("create_commit") /\ Has("push_changes")

(***************************************************************************)
(* C3: the changelog generator is invoked only for a resolved version      *)
(* without prerelease, never for an alpha or rc target, at most once, and  *)
(* in a run of a final target that reaches the workflow it was invoked     *)
(* exactly once, after both metadata writes and before the commit.         *)
(***************************************************************************)
C3_ChangelogOnlyForFinal ==
    /\ Count("generate_changelog") <= 1
    /\ Has("generate_changelog") =>
          /\ version.prerelease = <<>>
          /\ Preceded("generate_changelog", "write_version_file")
          /\ Preceded("generate_changelog", "write_version_to_pyproject")
    /\ Preceded("create_commit", "write_version_to_pyproject")
    /\ (Has("create_commit") /\ version.prerelease = <<>>) =>
          Preceded("create_commit", "generate_changelog")
    /\ (Resolved /\ version.prerelease # <<>>) => ~Has("generate_changelog")
    /\ pc \in {"workflow", "create_commit", "push_changes", "print_done_message", "done"} =>
          (Count("generate_changelog") = 1 <=> version.prerelease = <<>>)

C3_Witness ==
    /\ pc = "done" /\ version.prerelease = <<>> /\ Count("generate_changelog") = 1

(***************************************************************************)
(* C4: next_prerelease(version, flavor) keeps major.minor.patch, sets the  *)
(* requested flavor, and sets the counter to 1 for a version without       *)
(* prerelease and to the existing counter + 1 for a prerelease of either   *)
(* flavor: 2.4.1a1 + alpha = 2.4.1a2, 2.4.1a2 + rc = 2.4.1rc3, and alpha   *)
(* then rc from a final version gives counter 2.                           *)
(***************************************************************************)
\* the directive went to next_prerelease(current, directive)
BumpedPrerelease ==
    /\ Has("parse_next_version")
    /\ Directive \in PRERELEASE_FLAVORS /\ choices = <<>>

C4_NextPrerelease ==
    /\ BumpedPrerelease =>
          LET cur == Current
              n == IF cur.prerelease = <<>> THEN 1 ELSE CounterOf(cur.prerelease[1]) + 1
          IN /\ version = Pre(cur.major, cur.minor, cur.patch, Directive, n)
             /\ (initialVersionFile = V241 \o <<"a", "1">> /\ Directive = Alpha)
                   => Text(version) = V241 \o <<"a", "2">>
             /\ (initialVersionFile = V241 \o <<"a", "2">> /\ Directive = Rc)
                   => Text(version) = V241 \o <<"r", "c", "3">>
    /\ LET cur == Current
       IN cur.prerelease = <<>> =>
             next_prerelease(next_prerelease(cur, Alpha), Rc)
                = Pre(cur.major, cur.minor, cur.patch, Rc, 2)

C4_Witness ==
    /\ pc = "confirm_version" /\ versionFile = V241 \o <<"a", "2">>
    /\ next_version_arg = Rc /\ Text(version) = V241 \o <<"r", "c", "3">>

(***************************************************************************)
(* C5: with current version 2.4.0 and the directive alpha on branch        *)
(* feature/x, the resolved version is 2.4.1a1, the changelog is not        *)
(* generated and the same-branch path runs with no new branch.  The        *)
(* directive is the command-line argument, or the prompt answer followed   *)
(* by the choice of the next-patch candidate.                              *)
(***************************************************************************)
C5_AlphaFromFinal ==
    (/\ Has("parse_next_version") /\ Resolved
     /\ Directive = Alpha
     /\ choices # <<>> => selected = choices[2]
     /\ initialVersionFile = V240
     /\ OriginalBranch = FeatureX)
    => /\ Text(version) = V241 \o <<"a", "1">>
       /\ ~Has("generate_changelog")
       /\ ~Has("create_release_branch")
       /\ path # "release_branch"

(***************************************************************************)
(* C6: the directives major, minor and patch resolve to the smallest final *)
(* version above the current one with the lower components zero.  From a   *)
(* final current version the respective component is incremented and the   *)
(* lower ones are zeroed (2.4.0 with patch gives 2.4.1).  From a           *)
(* prerelease current version the prerelease is dropped, and the component *)
(* is incremented only if a lower component is not zero: patch keeps       *)
(* major.minor.patch, minor keeps major.minor when patch is 0, major keeps *)
(* major when minor and patch are 0.                                       *)
(***************************************************************************)
BumpedComponent == Has("parse_next_version") /\ Directive \in {Major, Minor, Patch}

C6_ComponentBump ==
    BumpedComponent =>
        LET cur == Current
            pre == cur.prerelease # <<>>
        IN /\ Directive = Patch =>
                 version = Final(cur.major, cur.minor, IF pre THEN cur.patch ELSE cur.patch + 1)
           /\ Directive = Minor =>
                 version = Final(cur.major,
                                 IF pre /\ cur.patch = 0 THEN cur.minor ELSE cur.minor + 1, 0)
           /\ Directive = Major =>
                 version = Final(IF pre /\ cur.minor = 0 /\ cur.patch = 0
                                 THEN cur.major ELSE cur.major + 1, 0, 0)
           /\ (initialVersionFile = V240 /\ Directive = Patch) => Text(version) = V241

C6_Witness ==
    /\ pc = "confirm_version" /\ versionFile = V241 \o <<"a", "1">>
    /\ next_version_arg = Patch /\ Text(version) = V241

\* the claim as stated: the component is incremented whatever the current
\* version, final or prerelease
C6_AlwaysIncrements ==
    BumpedComponent =>
        LET cur == Current
        IN /\ Directive = Patch => version = Final(cur.major, cur.minor, cur.patch + 1)
           /\ Directive = Minor => version = Final(cur.major, cur.minor + 1, 0)
           /\ Directive = Major => version = Final(cur.major + 1, 0, 0)

(***************************************************************************)
(* C7: the dependency check ends the run with a non-zero exit exactly when *)
(* the (major, minor) of the rasa-sdk dependency differs from that of the  *)
(* target; a difference in patch or prerelease alone never does.  When it  *)
(* ends the run nothing was written, no changelog generated, no branch     *)
(* created, no commit and no push made (2.3.5 against 2.4.1 aborts).       *)
(***************************************************************************)
SdkText == get_rasa_sdk_version(sdk)

C7_DependencyCheck ==
    sdk # None =>
        LET dep == SdkVersion
            differs == dep.major # version.major \/ dep.minor # version.minor
        IN /\ differs <=> outcome = "mismatch"
           /\ outcome = "mismatch" => NonZeroExit /\ NoSideEffect
           /\ ~differs => (pc = "exited" => Has("write_version_file"))
           /\ (SdkText = <<"2", ".", "3", ".", "5">> /\ Text(version) = V241)
                 => outcome = "mismatch"

C7_Witness ==
    /\ outcome = "mismatch" /\ SdkText = <<"2", ".", "3", ".", "5">>
    /\ Text(version) = V241

\* a run the dependency check let through although patch and prerelease differ
C7_WitnessTolerated ==
    /\ pc = "write_version_file" /\ SdkText = <<"2", ".", "4", ".", "0">>
    /\ Text(version) = V241 \o <<"a", "1">>

(***************************************************************************)
(* C8: a run that reaches the confirmation asks exactly one question: the  *)
(* overwrite question (default refuse) when the text of the target is an   *)
(* existing tag, the proceed question (default accept) otherwise.  When    *)
(* the user declines, the run ends with a non-zero exit and no metadata    *)
(* write, changelog, branch creation, commit or push has been performed.   *)
(***************************************************************************)
C8_DeclinedConfirmation ==
    /\ Count("confirm_overwrite") + Count("confirm_proceed")
          = (IF confirmAnswer = "none" THEN 0 ELSE 1)
    /\ confirmAnswer # "none" =>
          LET overwrite == Text(version) \in tags
              declined == \/ confirmAnswer \in {"no", "cancel"}
                          \/ confirmAnswer = "enter" /\ overwrite
          IN /\ Has("confirm_overwrite") <=> overwrite
             /\ declined <=> outcome = "declined"
             /\ outcome = "declined" => NonZeroExit /\ NoSideEffect

C8_Witness ==
    /\ outcome = "declined" /\ confirmAnswer = "enter" /\ Has("confirm_overwrite")
    /\ pc = "exited"

(***************************************************************************)
(* C9: an explicit version directive that is not of the form X.Y.Z,        *)
(* optionally followed by a or rc and a counter >= 1 without leading zero, *)
(* makes the resolution fail before any file is touched, any branch        *)
(* created or any commit or push made; a directive of that form is         *)
(* accepted.  The text 2.4.1.rc1 is not of that form.                      *)
(***************************************************************************)
\* digits, without a leading zero unless the number is 0
IsNumber(t) == t # <<>> /\ AllDigits(t) /\ (t[1] = "0" => Len(t) = 1)

\* X.Y.Z, then nothing or a hyphen-free or hyphenated a<N> or rc<N>
IsXYZ(t) ==
    \E i \in 1..Len(t), j \in 1..Len(t), k \in 1..Len(t) :
        /\ i < j /\ j < k /\ t[i] = "." /\ t[j] = "."
        /\ IsNumber(SubSeq(t, 1, i - 1)) /\ IsNumber(SubSeq(t, i + 1, j - 1))
        /\ IsNumber(SubSeq(t, j + 1, k))
        /\ LET rest == SubSeq(t, k + 1, Len(t))
               tag == IF rest # <<>> /\ rest[1] = "-" THEN Tail(rest) ELSE rest
               digits == IF tag # <<>> /\ tag[1] = "a" THEN Tail(tag)
                         ELSE IF Len(tag) >= 2 /\ SubSeq(tag, 1, 2) = <<"r", "c">>
                         THEN SubSeq(tag, 3, Len(tag))
                         ELSE <<>>
           IN rest = <<>> \/ (IsNumber(digits) /\ digits # <<"0">>)

C9_ExplicitDirective ==
    (next_version_arg \in ExplicitTexts) =>
        /\ IsXYZ(next_version_arg) <=> Resolved
        /\ ~IsXYZ(next_version_arg) => NonZeroExit /\ NoSideEffect

(***************************************************************************)
(* C10: with the directive alpha or rc and a current version that carries  *)
(* a prerelease of the other flavor, the resolution does not fail and asks *)
(* for no base: it returns the current major.minor.patch with the          *)
(* requested flavor and the counter + 1.  A base (next minor, next patch   *)
(* or next major) is asked for only at the prompt, when the current        *)
(* version carries no prerelease.                                          *)
(***************************************************************************)
OtherFlavor ==
    /\ Has("parse_next_version")
    /\ Directive \in PRERELEASE_FLAVORS
    /\ Current.prerelease # <<>>
    /\ FlavorOf(Current.prerelease[1]) # Directive

C10_FlavorSwitch ==
    /\ OtherFlavor =>
          /\ Resolved
          /\ ~Has("ask_select") /\ choices = <<>>
          /\ <<version.major, version.minor, version.patch>>
                = <<Current.major, Current.minor, Current.patch>>
          /\ Len(version.prerelease) = 1
          /\ FlavorOf(version.prerelease[1]) = Directive
          /\ CounterOf(version.prerelease[1]) = CounterOf(Current.prerelease[1]) + 1
    /\ Has("ask_select") <=>
          (asked \in PRERELEASE_FLAVORS /\ Current.prerelease = <<>>)

C10_Witness ==
    /\ pc = "confirm_version" /\ initialVersionFile = V241 \o <<"a", "2">>
    /\ asked = Rc /\ Text(version) = V241 \o <<"r", "c", "3">>

\* the claim as stated: the resolution fails
C10_FailsOnOtherFlavor == OtherFlavor => (~Resolved /\ NonZeroExit)

(***************************************************************************)
(* C11: round trip.  For every version the run resolved (from major,       *)
(* minor, patch, alpha, rc or an accepted explicit text), parsing the text  *)
(* str(version) gives a version equal to it: the same major, minor, patch, *)
(* prerelease and build.                                                   *)
(***************************************************************************)
C11_RoundTrip ==
    (Has("parse_next_version") /\ Resolved) => parse_explicit(Text(version)) = version

(***************************************************************************)
(* C12: ordering monotonicity.  For every current version, final or        *)
(* prerelease, the next patch, next minor and next major versions, and the *)
(* version a run resolves from the directives patch, minor and major, are  *)
(* strictly greater than the current version, in the order where at equal  *)
(* major.minor.patch alpha < rc < final and prereleases of one flavor are  *)
(* ordered by their counter.                                               *)
(***************************************************************************)
\* 1 for an alpha, 2 for a release candidate, 3 for a final version
FlavorRank(v) ==
    IF v.prerelease = <<>> THEN 3 ELSE IF FlavorOf(v.prerelease[1]) = Alpha THEN 1 ELSE 2

CounterRank(v) == IF v.prerelease = <<>> THEN 0 ELSE CounterOf(v.prerelease[1])

OrderKey(v) == <<v.major, v.minor, v.patch, FlavorRank(v), CounterRank(v)>>

\* a < b: the keys differ and a is smaller at the first difference
Less(a, b) ==
    LET ka == OrderKey(a)
        kb == OrderKey(b)
    IN \E i \in 1..5 : ka[i] < kb[i] /\ \A j \in 1..(i - 1) : ka[j] = kb[j]

C12_OrderingMonotonicity ==
    LET cur == Current
    IN /\ Less(cur, next_patch(cur))
       /\ Less(cur, next_minor(cur))
       /\ Less(cur, next_major(cur))
       /\ BumpedComponent => Less(cur, version)

C12_Witness ==
    /\ pc = "confirm_version" /\ initialVersionFile = V240 \o <<"r", "c", "2">>
    /\ asked = Minor /\ Text(version) = V240

(***************************************************************************)
(* C13: the side effects of a run occur in the order write version file,   *)
(* write manifest, changelog (final version only), branch creation         *)
(* (release-branch path only), commit, push.  A run that reaches the end   *)
(* made all of them, with exactly one commit and one push, the commit      *)
(* before the push; nothing follows the push, and when the push fails the  *)
(* run ends there with the writes, the branch and the commit left as they  *)
(* are.                                                                    *)
(***************************************************************************)
SideEffectLog == SelectSeq(log, LAMBDA e : e \in SideEffects)

ExpectedSideEffects ==
    <<"write_version_file", "write_version_to_pyproject">>
    \o (IF version.prerelease = <<>> THEN <<"generate_changelog">> ELSE <<>>)
    \o (IF path = "release_branch" THEN <<"create_release_branch">> ELSE <<>>)
    \o <<"create_commit", "push_changes">>

IsPrefix(a, b) == Len(a) <= Len(b) /\ SubSeq(b, 1, Len(a)) = a

C13_SideEffectOrder ==
    /\ IF Resolved THEN IsPrefix(SideEffectLog, ExpectedSideEffects)
       ELSE SideEffectLog = <<>>
    /\ pc = "done" =>
          /\ SideEffectLog = ExpectedSideEffects
          /\ Count("create_commit") = 1 /\ Count("push_changes") = 1
    /\ Has("push_changes") => log[Len(log)] = "push_changes"
    /\ (Has("push_changes") /\ pc = "exited") =>
          /\ outcome = "CalledProcessError"
          /\ versionFile = Text(version) /\ pyproject = Text(version)
          /\ ~dirty /\ message = <<>>
          /\ path = "release_branch" => head = branch

C13_Witness ==
    /\ pc = "done" /\ path = "release_branch" /\ Has("generate_changelog")
    /\ Len(SideEffectLog) = 6

(***************************************************************************)
(* C14: on the release-branch path the branch is created once, after both  *)
(* metadata writes and before the commit; its name is prepare-release-     *)
(* followed by the text of the resolved version (prepare-release-2.4.1 for *)
(* 2.4.1); commit and push happen on it; the base of the closing message   *)
(* is the branch that was current when the run started.                    *)
(***************************************************************************)
PrepareRelease241 ==
    <<"p", "r", "e", "p", "a", "r", "e", "-", "r", "e", "l", "e", "a", "s", "e", "-",
      "2", ".", "4", ".", "1">>

\* the branch the run started on: master when HEAD is detached
StartBranch == IF initialHead = Detached THEN Master ELSE initialHead

C14_ReleaseBranch ==
    /\ Count("create_release_branch") = (IF path = "release_branch" THEN 1 ELSE 0)
    /\ Preceded("create_release_branch", "write_version_file")
    /\ Preceded("create_release_branch", "write_version_to_pyproject")
    /\ ~Has("create_release_branch") => branch = None /\ head = initialHead
    /\ path = "release_branch" =>
          /\ base = StartBranch
          /\ Preceded("create_commit", "create_release_branch")
          /\ IF pc = "exited" /\ log[Len(log)] = "create_release_branch"
             THEN branch = None /\ head = initialHead
             ELSE /\ branch = SubSeq(PrepareRelease241, 1, 16) \o Text(version)
                  /\ head = branch
                  /\ Text(version) = V241 => branch = PrepareRelease241
          /\ pc = "done" => message = <<"compare", StartBranch, branch, Text(version)>>

C14_Witness ==
    /\ pc = "done" /\ branch = PrepareRelease241
    /\ initialHead = <<"2", ".", "4", ".", "x">> /\ message[2] = initialHead

(***************************************************************************)
(* C15: at the prompt, when the answer is alpha or rc and the select       *)
(* prompt is shown, exactly three candidates are offered, in the order     *)
(* next minor, next patch, next major of the current version, each with    *)
(* the answered flavor and counter 1, and the version resolved is the      *)
(* candidate selected.  With a directive on the command line neither       *)
(* prompt is shown.                                                        *)
(***************************************************************************)
Candidates(cur, flavor) ==
    <<Pre(cur.major, cur.minor + 1, 0, flavor, 1),
      Pre(cur.major, cur.minor, cur.patch + 1, flavor, 1),
      Pre(cur.major + 1, 0, 0, flavor, 1)>>

C15_Candidates ==
    /\ Has("ask_select") <=> choices # <<>>
    /\ choices # <<>> =>
          LET cands == Candidates(Current, asked)
          IN /\ asked \in PRERELEASE_FLAVORS
             /\ Len(choices) = 3
             /\ \A i \in 1..3 : choices[i] = Text(cands[i])
             /\ (initialVersionFile = V240 /\ asked = Alpha) =>
                   choices = <<<<"2", ".", "5", ".", "0", "a", "1">>,
                               <<"2", ".", "4", ".", "1", "a", "1">>,
                               <<"3", ".", "0", ".", "0", "a", "1">>>>
             /\ selected # None =>
                   /\ Resolved
                   /\ \E i \in 1..3 : selected = choices[i] /\ version = cands[i]
    /\ next_version_arg # None =>
          /\ ~Has("ask_text") /\ ~Has("ask_select")
          /\ asked = None /\ choices = <<>> /\ selected = None

C15_Witness ==
    /\ pc = "confirm_version" /\ initialVersionFile = V240 /\ asked = Rc
    /\ selected = choices[3]
    /\ Text(version) = <<"3", ".", "0", ".", "0", "r", "c", "1">>

(***************************************************************************)
(* C17: when the text prompt or the select prompt of ask_version gives no  *)
(* answer, the run aborts with a non-zero exit: no version is resolved, no *)
(* confirmation is asked, nothing is written, no branch is created and no  *)
(* commit or push is made.  A run aborts this way in no other case.        *)
(***************************************************************************)
Unanswered ==
    /\ Has("ask_text")
    /\ \/ asked = None \/ asked = <<>>
       \/ Has("ask_select") /\ (selected = None \/ selected = <<>>)

C17_NoAnswerAborts ==
    /\ Unanswered =>
          /\ NonZeroExit /\ outcome = "aborted"
          /\ NoSideEffect
          /\ version = NoVersion /\ ~Has("parse_next_version")
          /\ confirmAnswer = "none"
          /\ ~Has("confirm_overwrite") /\ ~Has("confirm_proceed")
    /\ outcome = "aborted" => Unanswered

C17_Witness ==
    /\ outcome = "aborted" /\ asked = Alpha /\ Has("ask_select") /\ selected = None
    /\ pc = "exited"

(***************************************************************************)
(* C18: a run started with a detached HEAD takes master as the current     *)
(* branch: it never takes the same-branch path, not even for an alpha      *)
(* target; it creates a release branch, and the closing message has master *)
(* as its base.                                                            *)
(***************************************************************************)
C18_DetachedHead ==
    initialHead = Detached =>
        /\ path # "same_branch"
        /\ base \in {None, Master}
        /\ pc \in {"create_commit", "push_changes", "print_done_message", "done"} =>
              /\ path = "release_branch" /\ base = Master
              /\ Count("create_release_branch") = 1
              /\ head = SubSeq(PrepareRelease241, 1, 16) \o Text(version)
        /\ pc = "done" => message[1] = "compare" /\ message[2] = Master

C18_Witness ==
    /\ pc = "done" /\ initialHead = Detached /\ IsAlpha(version)
    /\ message[2] = Master /\ Has("create_release_branch")

(***************************************************************************)
(* C16: over runs of the script one after the other, started on a version  *)
(* that is final or has one prerelease a<N> or rc<N> with N >= 1, and with *)
(* any directives, the version in the version file (and in the manifest)   *)
(* always parses to a version that has no prerelease or exactly one        *)
(* prerelease identifier, a or rc followed by a counter >= 1.  The files   *)
(* are looked at whenever the script is at rest: when a run starts, when a *)
(* run has succeeded, and when a run has failed after writing.             *)
(***************************************************************************)
\* a or rc followed by a counter >= 1 without leading zero
IsFlavorCounter(id) ==
    \E code \in {<<"a">>, <<"r", "c">>} :
        /\ Len(id) > Len(code) /\ SubSeq(id, 1, Len(code)) = code
        /\ IsNumber(SubSeq(id, Len(code) + 1, Len(id)))
        /\ SubSeq(id, Len(code) + 1, Len(id)) # <<"0">>

WellShaped(text) ==
    LET v == coerce(text)
    IN /\ ~IsError(v)
       /\ \/ v.prerelease = <<>>
          \/ Len(v.prerelease) = 1 /\ IsFlavorCounter(v.prerelease[1])

AtRest ==
    \/ pc \in {"ensure_clean_git", "done"}
    \/ pc = "exited" /\ Has("write_version_file")

C16_VersionShape ==
    AtRest => /\ WellShaped(versionFile)
              /\ pyproject # versionFile => WellShaped(pyproject)

C16_Witness ==
    /\ runs = 2 /\ pc = "done"
    /\ initialVersionFile = V241 \o <<"a", "2">> /\ next_version_arg = Rc
    /\ versionFile = V241 \o <<"r", "c", "3">>

(***************************************************************************)
(* C19: persistence is not transactional.  When a run fails after the      *)
(* version file was written and before the commit was made, the written    *)
(* files stay as they are and the tree stays dirty; the script started     *)
(* again finds the tree as the failed run left it; and every run started   *)
(* on a dirty tree ends at the clean-working-tree check with a non-zero    *)
(* exit, resolving no version and writing nothing.                         *)
(***************************************************************************)
FailedAfterWrite ==
    /\ pc = "exited" /\ Has("write_version_file") /\ ~Has("push_changes")
    /\ outcome \in {"pyproject", "CalledProcessError"}

\* the run was started on a dirty tree
StartedDirty == dirty /\ ~Has("write_version_file")

C19_State ==
    /\ FailedAfterWrite =>
          /\ dirty /\ versionFile = Text(version)
          /\ Has("write_version_to_pyproject") => pyproject = Text(version)
          /\ ~Has("write_version_to_pyproject") => pyproject = initialVersionFile
    /\ StartedDirty =>
          /\ \/ pc = "ensure_clean_git" /\ log = <<>>
             \/ pc = "exited" /\ outcome = "dirty" /\ log = <<"ensure_clean_git">>
          /\ version = NoVersion
          /\ versionFile = initialVersionFile /\ head = initialHead /\ branch = None

C19_Step ==
    (FailedAfterWrite /\ runs' # runs) =>
        /\ dirty' /\ pc' = "ensure_clean_git"
        /\ <<versionFile', pyproject', head'>> = <<versionFile, pyproject, head>>

====
